---- MODULE Spec2Model ----
(***************************************************************************)
(* Model of the infrared remote listener of GoEV3 (Sensors/color.go):      *)
(* OnRemotePressed / OnRemoteReleased start one engine goroutine and four  *)
(* pollRemote goroutines that share one buffered channel `s` and one       *)
(* caller-supplied `stop` channel.                                         *)
(***************************************************************************)
EXTENDS Integers, Sequences, FiniteSets, TLC

\* ---------------------------------------------------------------- bounds
\* Total number of file reads performed by all samplers together.
MaxPolls == 3
\* Capacity of the sample channel: make(chan RemoteSignal, 50), scaled down
\* so that a full queue (a blocked sender) is reachable.
QueueCap == 2

\* ------------------------------------------------------------- constants
RedUp == 1
RedDown == 2
BlueUp == 3
BlueDown == 4

Channel1 == 0
Channel2 == 1
Channel3 == 2
Channel4 == 3

\* for i := 0; i < 4; i++  (one goroutine per value file)
NumSamplers == 4

Samplers == 0 .. (NumSamplers - 1)
Buttons == RedUp .. BlueDown
Channels == {Channel1, Channel2, Channel3, Channel4}

\* What a read of value file i may return in remote mode: 0 is idle, 1..4 a
\* button code.  Two remotes are in use, on the channels of value0 and value1;
\* the files of the two other channels always read idle.
FileValues(i) ==
    CASE i = 0 -> {0, RedUp, RedDown}
      [] i = 1 -> {0, BlueDown}
      [] OTHER -> {0}

\* name := fmt.Sprintf("value%d", i)
ValueName(i) ==
    CASE i = 0 -> "value0"
      [] i = 1 -> "value1"
      [] i = 2 -> "value2"
      [] i = 3 -> "value3"
      [] OTHER -> "value?"

\* Result of parseChannel on a name it does not know (log.Fatal).
NoChannel == -1

parseChannel(name) ==
    CASE name = "value0" -> Channel1
      [] name = "value1" -> Channel2
      [] name = "value2" -> Channel3
      [] name = "value3" -> Channel4
      [] OTHER -> NoChannel

\* uint64(c)*10 + uint64(b); c <= 3 and b < 2^16, so the uint64 sum never wraps
buttonID(c, b) == c * 10 + b

RemoteSignal(name, value) == [Name |-> name, Value |-> value]

\* v, ok := pressed[k]; ok && v
IsPressed(m, k) == k \in DOMAIN m /\ m[k]

\* pressed[k] = v
MapSet(m, k, v) == (k :> v) @@ m

\* ------------------------------------------------------------------ state
VARIABLES
    reg,        \* which registration call has run: "none", "pressed", "released"
    devMode,    \* the device's mode attribute
    stop,       \* number of values waiting on the stop channel
    sent,       \* the application has sent its value on stop
    s,          \* the buffered channel of RemoteSignal
    epc,        \* engine goroutine: "idle", "run", "done", "dead"
    pressed,    \* the engine's map[uint64]bool
    log,        \* history: signals processed by the engine, with the callbacks each invoked
    estop,      \* history: "no" until the engine receives from stop, then whether s was "empty" or "waiting"
    enq,        \* history: the signals sent on s, in the order the sends completed
    spc,        \* sampler goroutine i: "idle", "poll", "send", "done", "dead"
    data,       \* sampler i: the parsed value it is about to send
    reads,      \* history: values read by sampler i, in order
    enqAtStop,  \* history: -1 until a goroutine receives from stop, then the length of enq at that moment
    exited,     \* the process was terminated by log.Fatal
    caller,     \* a concurrent call of ReadProximity on the same sensor: "idle", "wrote", "done"
    readIn,     \* history: who read a value file in which device mode
    other,      \* a second registration on the same device: its own reg, s, epc, pressed, log, spc, data, polls
    motor       \* the attribute files of a motor, and the last call made on it

vars == <<reg, devMode, stop, sent, s, epc, pressed, log, estop, enq,
          spc, data, reads, enqAtStop, exited, caller, readIn, other, motor>>

engineVars == <<epc, pressed, log, estop>>
samplerVars == <<spc, data, reads, enq>>

\* The stop value has been sent and some goroutine has received it.
Received == sent /\ stop = 0

RECURSIVE SumOver(_, _)
SumOver(f, S) ==
    IF S = {} THEN 0
    ELSE LET x == CHOOSE y \in S : TRUE
         IN  f[x] + SumOver(f, S \ {x})

Polls == SumOver([i \in Samplers |-> Len(reads[i])], Samplers) + other.polls

\* No second call of OnRemotePressed / OnRemoteReleased has been made.
NoOther ==
    [reg |-> "none", s |-> <<>>, epc |-> "idle", pressed |-> <<>>, log |-> <<>>,
     spc |-> [i \in Samplers |-> "idle"], data |-> [i \in Samplers |-> 0], polls |-> 0]

\* The files of a motor whose speed_regulation reads r, before any call.
MotorStart(r) ==
    [speed_regulation |-> r, speed_sp |-> 0, duty_cycle_sp |-> 0, command |-> "",
     last |-> [op |-> "none", speed |-> 0, writes |-> <<>>]]

ListenerInit ==
    /\ reg = "none"
    /\ devMode = "IR-PROX"
    /\ stop = 0
    /\ sent = FALSE
    /\ s = <<>>
    /\ epc = "idle"
    /\ pressed = <<>>
    /\ log = <<>>
    /\ estop = "no"
    /\ enq = <<>>
    /\ spc = [i \in Samplers |-> "idle"]
    /\ data = [i \in Samplers |-> 0]
    /\ reads = [i \in Samplers |-> <<>>]
    /\ enqAtStop = -1
    /\ exited = FALSE
    /\ caller = "idle"
    /\ readIn = {}
    /\ other = NoOther

\* Regulation mode is off by default.
Init == ListenerInit /\ motor = MotorStart("off")

\* ----------------------------------------------------------- registration
\* Variant of Register without the call of RemoteModeOn.
Register_NoMode(kind) ==
    /\ ~exited
    /\ reg = "none"
    /\ reg' = kind
    /\ s' = <<>>
    /\ epc' = "run"
    /\ pressed' = <<>>
    /\ spc' = [i \in Samplers |-> "poll"]
    /\ UNCHANGED <<devMode, stop, sent, log, estop, enq, enqAtStop, data, reads, exited,
                   caller, readIn, other, motor>>

\* RemoteModeOn(); s := make(chan ...); go func(){...}(); pollRemote(s, stop)
Register(kind) ==
    /\ ~exited
    /\ reg = "none"
    /\ reg' = kind
    /\ devMode' = "IR-REMOTE"
    /\ s' = <<>>
    /\ epc' = "run"
    /\ pressed' = <<>>
    /\ spc' = [i \in Samplers |-> "poll"]
    /\ UNCHANGED <<stop, sent, log, estop, enq, enqAtStop, data, reads, exited, caller, readIn, other, motor>>

OnRemotePressed == Register("pressed")

OnRemoteReleased == Register("released")

\* The application stops the listening the way the comment on OnRemotePressed
\* prescribes: it sends one boolean value on the stop channel.
SendStop ==
    /\ ~exited
    /\ reg # "none"
    /\ ~sent
    /\ sent' = TRUE
    /\ stop' = stop + 1
    /\ UNCHANGED <<reg, devMode, s, engineVars, samplerVars, enqAtStop, exited, caller, readIn, other, motor>>

\* log.Fatal: os.Exit(1).  The process ends, and with it every goroutine, both
\* channels and the map; what stays is what already left the process: the
\* callbacks invoked so far and the mode written to the device.
Exit ==
    /\ exited' = TRUE
    /\ epc' = "dead"
    /\ spc' = [j \in Samplers |-> "dead"]
    /\ s' = <<>>
    /\ pressed' = <<>>
    /\ data' = [j \in Samplers |-> 0]
    /\ stop' = 0
    /\ sent' = FALSE
    /\ reads' = [j \in Samplers |-> <<>>]
    /\ enq' = <<>>
    /\ estop' = "no"
    /\ enqAtStop' = -1
    /\ other' = IF other.reg = "none" THEN other
                ELSE [NoOther EXCEPT !.reg = other.reg, !.log = other.log, !.epc = "dead",
                                     !.spc = [j \in Samplers |-> "dead"]]
    /\ readIn' = {}
    /\ UNCHANGED <<reg, devMode, log, caller>>

\* ----------------------------------------------------------------- engine
\* Variant of ClearFrom whose loop leaves the first button out.
RECURSIVE ClearFrom_SkipRedUp(_, _, _)
ClearFrom_SkipRedUp(m, c, b) ==
    IF b > BlueDown THEN m
    ELSE IF b = RedUp THEN ClearFrom_SkipRedUp(m, c, b + 1)
         ELSE ClearFrom_SkipRedUp(MapSet(m, buttonID(c, b), FALSE), c, b + 1)

\* for b := RedUp; b <= BlueDown; b++ { pressed[buttonID(c, b)] = false }
RECURSIVE ClearFrom(_, _, _)
ClearFrom(m, c, b) ==
    IF b > BlueDown THEN m
    ELSE ClearFrom(MapSet(m, buttonID(c, b), FALSE), c, b + 1)

\* Variant of PressedBody without the `if v, ok := pressed[k]; ok && v` test.
PressedBody_NoDedupe(m, signal) ==
    LET c == parseChannel(signal.Name)
        k == buttonID(c, signal.Value)
    IN  IF signal.Value = 0
        THEN [pressed |-> ClearFrom(m, c, RedUp), fn |-> <<>>]
        ELSE [pressed |-> MapSet(m, k, TRUE), fn |-> << <<c, signal.Value>> >>]

\* Variant of PressedBody in which a new button replaces the buttons of its
\* channel instead of joining them.
PressedBody_Exclusive(m, signal) ==
    LET c == parseChannel(signal.Name)
        k == buttonID(c, signal.Value)
    IN  IF signal.Value = 0
        THEN [pressed |-> ClearFrom(m, c, RedUp), fn |-> <<>>]
        ELSE IF IsPressed(m, k)
             THEN [pressed |-> m, fn |-> <<>>]
             ELSE [pressed |-> MapSet(ClearFrom(m, c, RedUp), k, TRUE),
                   fn |-> << <<c, signal.Value>> >>]

\* Body of `case signal := <-s` in OnRemotePressed: the new map and the
\* callbacks invoked, in order.
PressedBody(m, signal) ==
    LET c == parseChannel(signal.Name)
        k == buttonID(c, signal.Value)
    IN  IF signal.Value = 0
        THEN [pressed |-> ClearFrom(m, c, RedUp), fn |-> <<>>]
        ELSE IF IsPressed(m, k)
             THEN [pressed |-> m, fn |-> <<>>]
             ELSE [pressed |-> MapSet(m, k, TRUE), fn |-> << <<c, signal.Value>> >>]

\* Variant of ReleaseFrom without `pressed[buttonID(c, b)] = false`.
RECURSIVE ReleaseFrom_NoReset(_, _, _)
ReleaseFrom_NoReset(r, c, b) ==
    IF b > BlueDown THEN r
    ELSE IF IsPressed(r.pressed, buttonID(c, b))
         THEN ReleaseFrom_NoReset([pressed |-> r.pressed, fn |-> Append(r.fn, <<c, b>>)], c, b + 1)
         ELSE ReleaseFrom_NoReset(r, c, b + 1)

\* for b := RedUp; b <= BlueDown; b++ { if pressed[id] { fn(c, b); pressed[id] = false } }
RECURSIVE ReleaseFrom(_, _, _)
ReleaseFrom(r, c, b) ==
    IF b > BlueDown THEN r
    ELSE IF IsPressed(r.pressed, buttonID(c, b))
         THEN ReleaseFrom([pressed |-> MapSet(r.pressed, buttonID(c, b), FALSE),
                           fn |-> Append(r.fn, <<c, b>>)], c, b + 1)
         ELSE ReleaseFrom(r, c, b + 1)

\* Body of `case signal := <-s` in OnRemoteReleased.
ReleasedBody(m, signal) ==
    LET c == parseChannel(signal.Name)
    IN  IF signal.Value # 0
        THEN [pressed |-> MapSet(m, buttonID(c, signal.Value), TRUE), fn |-> <<>>]
        ELSE ReleaseFrom([pressed |-> m, fn |-> <<>>], c, RedUp)

\* Variant of EngineStop that drops the signal waiting in s on its way out.
EngineStop_Drain ==
    /\ ~exited
    /\ epc = "run"
    /\ stop > 0
    /\ stop' = stop - 1
    /\ epc' = "done"
    /\ estop' = IF s = <<>> THEN "empty" ELSE "waiting"
    /\ enqAtStop' = IF enqAtStop < 0 THEN Len(enq) ELSE enqAtStop
    /\ s' = IF s = <<>> THEN s ELSE Tail(s)
    /\ UNCHANGED <<reg, devMode, sent, pressed, log, samplerVars, exited, caller, readIn, other, motor>>

\* Variant of EngineStop with `break` for `return`: the select ends, the loop
\* goes on.
EngineStop_Break ==
    /\ ~exited
    /\ epc = "run"
    /\ stop > 0
    /\ stop' = stop - 1
    /\ epc' = "run"
    /\ estop' = IF s = <<>> THEN "empty" ELSE "waiting"
    /\ enqAtStop' = IF enqAtStop < 0 THEN Len(enq) ELSE enqAtStop
    /\ UNCHANGED <<reg, devMode, sent, s, pressed, log, samplerVars, exited, caller, readIn, other, motor>>

\* case <-stop: return
EngineStop ==
    /\ ~exited
    /\ epc = "run"
    /\ stop > 0
    /\ stop' = stop - 1
    /\ epc' = "done"
    /\ estop' = IF s = <<>> THEN "empty" ELSE "waiting"
    /\ enqAtStop' = IF enqAtStop < 0 THEN Len(enq) ELSE enqAtStop
    /\ UNCHANGED <<reg, devMode, sent, s, pressed, log, samplerVars, exited, caller, readIn, other, motor>>

\* case signal := <-s: ...
EngineSignal ==
    /\ ~exited
    /\ epc = "run"
    /\ Len(s) > 0
    /\ LET signal == Head(s)
           r == IF reg = "pressed" THEN PressedBody(pressed, signal)
                                   ELSE ReleasedBody(pressed, signal)
       IN  IF parseChannel(signal.Name) = NoChannel
           THEN \* log.Fatal("Invalid channel")
                Exit /\ UNCHANGED motor
           ELSE /\ s' = Tail(s)
                /\ pressed' = r.pressed
                /\ log' = Append(log, [signal |-> signal, fn |-> r.fn])
                /\ UNCHANGED <<reg, devMode, stop, sent, epc, estop, enq, enqAtStop,
                               spc, data, reads, exited, caller, readIn, other, motor>>

\* --------------------------------------------------------------- samplers
\* One goroutine of pollRemote.  os.Open and the reads touch only the file of
\* this goroutine, so they are taken together with the select that precedes
\* them; the send on s is a step of its own.

\* select { case <-stop: return ... }
SamplerStop(i) ==
    /\ ~exited
    /\ spc[i] = "poll"
    /\ stop > 0
    /\ stop' = stop - 1
    /\ spc' = [spc EXCEPT ![i] = "done"]
    /\ enqAtStop' = IF enqAtStop < 0 THEN Len(enq) ELSE enqAtStop
    /\ UNCHANGED <<reg, devMode, sent, s, engineVars, data, reads, enq, exited, caller, readIn, other, motor>>

\* Variant of SamplerRead for four files polled in turn by one goroutine: no
\* file is read while the read of another has not returned.
SamplerRead_Serial(i, v) ==
    /\ ~exited
    /\ spc[i] = "poll"
    /\ stop = 0
    /\ Polls < MaxPolls
    /\ \A j \in Samplers : spc[j] # "hung"
    /\ data' = [data EXCEPT ![i] = v]
    /\ reads' = [reads EXCEPT ![i] = Append(@, v)]
    /\ spc' = [spc EXCEPT ![i] = "send"]
    /\ readIn' = readIn \cup {<<"pollRemote", devMode>>}
    /\ UNCHANGED <<reg, devMode, stop, sent, s, engineVars, enq, enqAtStop, exited, caller, other, motor>>

\* select { ... default: }  (taken only when no stop value is ready), then
\* ioutil.ReadAll(f); f.Seek(0, 0); strconv.ParseUint(strings.Trim(...), 10, 16)
SamplerRead(i, v) ==
    /\ ~exited
    /\ spc[i] = "poll"
    /\ stop = 0
    /\ Polls < MaxPolls
    /\ data' = [data EXCEPT ![i] = v]
    /\ reads' = [reads EXCEPT ![i] = Append(@, v)]
    /\ spc' = [spc EXCEPT ![i] = "send"]
    /\ readIn' = readIn \cup {<<"pollRemote", devMode>>}
    /\ UNCHANGED <<reg, devMode, stop, sent, s, engineVars, enq, enqAtStop, exited, caller, other, motor>>

\* Variant of SamplerFatal that gives up its own goroutine only: `return` in
\* place of log.Fatal(err).
SamplerFatal_Return(i) ==
    /\ ~exited
    /\ spc[i] = "poll"
    /\ (stop = 0 \/ reads[i] = <<>>)
    /\ spc' = [spc EXCEPT ![i] = "done"]
    /\ UNCHANGED <<reg, devMode, stop, sent, s, engineVars, data, reads, enq, enqAtStop,
                   exited, caller, readIn, other, motor>>

\* if err != nil { log.Fatal(err) }  after Open (before the first select) or
\* after ReadAll, Seek or ParseUint (behind the default branch).
SamplerFatal(i) ==
    /\ ~exited
    /\ spc[i] = "poll"
    /\ (stop = 0 \/ reads[i] = <<>>)
    /\ Exit
    /\ UNCHANGED motor

\* Variant of SamplerSend that does not wait: select { case s <- ...: default: }.
SamplerSend_Drop(i) ==
    /\ ~exited
    /\ spc[i] = "send"
    /\ s' = IF Len(s) < QueueCap THEN Append(s, RemoteSignal(ValueName(i), data[i])) ELSE s
    /\ enq' = IF Len(s) < QueueCap THEN Append(enq, RemoteSignal(ValueName(i), data[i])) ELSE enq
    /\ spc' = [spc EXCEPT ![i] = "poll"]
    /\ UNCHANGED <<reg, devMode, stop, sent, engineVars, data, reads, enqAtStop, exited, caller, readIn, other, motor>>

\* Variant of SamplerSend over a channel that hands out the newest signal first.
SamplerSend_Front(i) ==
    /\ ~exited
    /\ spc[i] = "send"
    /\ Len(s) < QueueCap
    /\ s' = <<RemoteSignal(ValueName(i), data[i])>> \o s
    /\ enq' = Append(enq, RemoteSignal(ValueName(i), data[i]))
    /\ spc' = [spc EXCEPT ![i] = "poll"]
    /\ UNCHANGED <<reg, devMode, stop, sent, engineVars, data, reads, enqAtStop, exited, caller, readIn, other, motor>>

\* s <- RemoteSignal{name, b}; time.Sleep(...)
SamplerSend(i) ==
    /\ ~exited
    /\ spc[i] = "send"
    /\ Len(s) < QueueCap
    /\ s' = Append(s, RemoteSignal(ValueName(i), data[i]))
    /\ enq' = Append(enq, RemoteSignal(ValueName(i), data[i]))
    /\ spc' = [spc EXCEPT ![i] = "poll"]
    /\ UNCHANGED <<reg, devMode, stop, sent, engineVars, data, reads, enqAtStop, exited, caller, readIn, other, motor>>

pollRemote ==
    \E i \in Samplers :
        \/ SamplerStop(i)
        \/ \E v \in FileValues(i) : SamplerRead(i, v)
        \/ SamplerFatal(i)
        \/ SamplerSend(i)

Next ==
    \/ OnRemotePressed
    \/ OnRemoteReleased
    \/ SendStop
    \/ EngineStop
    \/ EngineSignal
    \/ pollRemote

Spec == Init /\ [][Next]_vars

\* Goroutines are scheduled fairly; the application and the file system are
\* under no obligation (SendStop, SamplerFatal and registration are not fair).
SamplerStep(i) == SamplerStop(i) \/ (\E v \in FileValues(i) : SamplerRead(i, v)) \/ SamplerSend(i)

FairSpec ==
    /\ Spec
    /\ WF_vars(EngineStop \/ EngineSignal)
    /\ \A i \in Samplers : WF_vars(SamplerStep(i))

\* ------------------------------------------------- listening, never stopped
\* What the files may hold in general: strconv.ParseUint(..., 10, 16) accepts
\* every value below 2^16, and the driver's remote mode reports 5..11 for
\* button combinations and the beacon.  The values kept here are idle, one
\* button, one combination below 10 and one above on value0, and idle and one
\* button on value1.
RemoteValues(i) ==
    CASE i = 0 -> {0, RedUp, 5, 11}
      [] i = 1 -> {0, RedUp}
      [] OTHER -> {0}

\* The listener with an application that never sends on stop and files that
\* always read well.
ListenNext ==
    \/ OnRemotePressed
    \/ OnRemoteReleased
    \/ EngineSignal
    \/ \E i \in Samplers : \E v \in RemoteValues(i) : SamplerRead(i, v)
    \/ \E i \in Samplers : SamplerSend(i)

ListenSpec ==
    /\ Init
    /\ [][ListenNext]_vars
    /\ WF_vars(EngineSignal)
    /\ \A i \in Samplers : WF_vars(SamplerStep(i))

\* ------------------------------------------------- a second registration
\* A second call of OnRemotePressed / OnRemoteReleased on the same sensor:
\* RemoteModeOn() on the same device, then its own s, its own engine goroutine
\* with its own map, and its own four samplers, each with its own open file.
OtherRegister(kind) ==
    /\ ~exited
    /\ reg # "none"
    /\ other.reg = "none"
    /\ devMode' = "IR-REMOTE"
    /\ other' = [other EXCEPT !.reg = kind, !.s = <<>>, !.epc = "run", !.pressed = <<>>,
                              !.spc = [i \in Samplers |-> "poll"]]
    /\ UNCHANGED <<reg, stop, sent, s, engineVars, samplerVars, enqAtStop, exited, caller, readIn, motor>>

\* Variant of OtherEngineSignal for a map declared once for the package
\* instead of once in each goroutine.
OtherEngineSignal_SharedMap ==
    /\ ~exited
    /\ other.epc = "run"
    /\ Len(other.s) > 0
    /\ LET signal == Head(other.s)
           r == IF other.reg = "pressed" THEN PressedBody(pressed, signal)
                                         ELSE ReleasedBody(pressed, signal)
       IN  /\ other' = [other EXCEPT !.s = Tail(@),
                                     !.log = Append(@, [signal |-> signal, fn |-> r.fn])]
           /\ pressed' = r.pressed
    /\ UNCHANGED <<reg, devMode, stop, sent, s, epc, log, estop, samplerVars, enqAtStop, exited, caller, readIn, motor>>

\* case signal := <-s: ...  in the engine of the second registration
OtherEngineSignal ==
    /\ ~exited
    /\ other.epc = "run"
    /\ Len(other.s) > 0
    /\ LET signal == Head(other.s)
           r == IF other.reg = "pressed" THEN PressedBody(other.pressed, signal)
                                         ELSE ReleasedBody(other.pressed, signal)
       IN  other' = [other EXCEPT !.s = Tail(@), !.pressed = r.pressed,
                                  !.log = Append(@, [signal |-> signal, fn |-> r.fn])]
    /\ UNCHANGED <<reg, devMode, stop, sent, s, engineVars, samplerVars, enqAtStop, exited, caller, readIn, motor>>

\* select { default: }; ReadAll; Seek; ParseUint  in sampler i of the second registration
OtherRead(i, v) ==
    /\ ~exited
    /\ other.spc[i] = "poll"
    /\ stop = 0
    /\ Polls < MaxPolls
    /\ other' = [other EXCEPT !.spc[i] = "send", !.data[i] = v, !.polls = @ + 1]
    /\ readIn' = readIn \cup {<<"pollRemote", devMode>>}
    /\ UNCHANGED <<reg, devMode, stop, sent, s, engineVars, samplerVars, enqAtStop, exited, caller, motor>>

\* s <- RemoteSignal{name, b}  in sampler i of the second registration
OtherSend(i) ==
    /\ ~exited
    /\ other.spc[i] = "send"
    /\ Len(other.s) < QueueCap
    /\ other' = [other EXCEPT !.spc[i] = "poll",
                              !.s = Append(@, RemoteSignal(ValueName(i), other.data[i]))]
    /\ UNCHANGED <<reg, devMode, stop, sent, s, engineVars, samplerVars, enqAtStop, exited, caller, readIn, motor>>

\* Two registrations listening together, never stopped, files reading well.
TwoNext ==
    \/ OnRemotePressed
    \/ OnRemoteReleased
    \/ OtherRegister("pressed")
    \/ OtherRegister("released")
    \/ EngineSignal
    \/ OtherEngineSignal
    \/ \E i \in Samplers : \E v \in FileValues(i) : SamplerRead(i, v)
    \/ \E i \in Samplers : SamplerSend(i)
    \/ \E i \in Samplers : \E v \in FileValues(i) : OtherRead(i, v)
    \/ \E i \in Samplers : OtherSend(i)

TwoSpec == Init /\ [][TwoNext]_vars

\* ------------------------------------------------------- ReadProximity
\* utilities.WriteStringValue(self.path, "mode", "IR-PROX")
ReadProximityWrite ==
    /\ ~exited
    /\ caller = "idle"
    /\ devMode' = "IR-PROX"
    /\ caller' = "wrote"
    /\ UNCHANGED <<reg, stop, sent, s, engineVars, samplerVars, enqAtStop, exited, readIn, other, motor>>

\* value := utilities.ReadUInt8Value(self.path, "value0"); return value
ReadProximityRead ==
    /\ ~exited
    /\ caller = "wrote"
    /\ readIn' = readIn \cup {<<"ReadProximity", devMode>>}
    /\ caller' = "done"
    /\ UNCHANGED <<reg, devMode, stop, sent, s, engineVars, samplerVars, enqAtStop, exited, other, motor>>

\* The mode a reader of value files selects before it reads.
ModeOf(who) == IF who = "pollRemote" THEN "IR-REMOTE" ELSE "IR-PROX"

\* A listener, never stopped, with a goroutine of the application calling
\* ReadProximity on the same sensor.
ModeNext ==
    \/ OnRemotePressed
    \/ OnRemoteReleased
    \/ EngineSignal
    \/ \E i \in Samplers : \E v \in FileValues(i) : SamplerRead(i, v)
    \/ \E i \in Samplers : SamplerSend(i)
    \/ ReadProximityWrite
    \/ ReadProximityRead

ModeSpec == Init /\ [][ModeNext]_vars

\* ---------------------------------------------------- a read that hangs
\* ioutil.ReadAll(f) of sampler i never returns.  The goroutine stays in the
\* call; no other sampler has a hung read.
SamplerHang(i) ==
    /\ ~exited
    /\ spc[i] = "poll"
    /\ stop = 0
    /\ \A j \in Samplers : spc[j] # "hung"
    /\ spc' = [spc EXCEPT ![i] = "hung"]
    /\ UNCHANGED <<reg, devMode, stop, sent, s, engineVars, data, reads, enq, enqAtStop,
                   exited, caller, readIn, other, motor>>

\* The listener, never stopped, with at most one read that hangs.
HangNext ==
    \/ OnRemotePressed
    \/ OnRemoteReleased
    \/ EngineSignal
    \/ \E i \in Samplers : \E v \in FileValues(i) : SamplerRead(i, v)
    \/ \E i \in Samplers : SamplerSend(i)
    \/ \E i \in Samplers : SamplerHang(i)

HangSpec ==
    /\ Init
    /\ [][HangNext]_vars
    /\ WF_vars(EngineSignal)
    /\ \A i \in Samplers : WF_vars(SamplerStep(i))

\* ------------------------------------------------------------------ motor
\* Motor/motors.go.  utilities.ReadStringValue returns the content of an
\* attribute file, utilities.WriteIntValue and WriteStringValue replace it.

\* What speed_regulation may read: "other" stands for any content that is
\* neither "on" nor "off".
RegulationModes == {"on", "off", "other"}

\* Arguments of Run tried: the ends of int16, both sides of each end of
\* [-100, 100], a value inside it and a regulated speed outside it.
Speeds == {-32768, -101, -100, 0, 100, 101, 1000, 32767}

listenerVars ==
    <<reg, devMode, stop, sent, s, epc, pressed, log, estop, enq, spc, data, reads,
      enqAtStop, caller, readIn, other>>

Call(op, speed, writes) == [op |-> op, speed |-> speed, writes |-> writes]

\* Variant of Run that tests the upper end of the range only.
Run_NoLowerEnd(speed) ==
    /\ ~exited
    /\ LET regulationMode == motor.speed_regulation
       IN  CASE regulationMode = "on" ->
                  /\ motor' = [motor EXCEPT
                                 !.speed_sp = speed, !.command = "run-forever",
                                 !.last = Call("Run", speed, << <<"speed_sp", speed>>,
                                                                <<"command", "run-forever">> >>)]
                  /\ UNCHANGED <<listenerVars, exited>>
             [] regulationMode = "off" ->
                  IF speed > 100
                  THEN /\ Exit
                       /\ motor' = [motor EXCEPT !.last = Call("Run", speed, <<>>)]
                  ELSE /\ motor' = [motor EXCEPT
                                      !.duty_cycle_sp = speed, !.command = "run-forever",
                                      !.last = Call("Run", speed, << <<"duty_cycle_sp", speed>>,
                                                                     <<"command", "run-forever">> >>)]
                       /\ UNCHANGED <<listenerVars, exited>>
             [] OTHER ->
                  /\ motor' = [motor EXCEPT !.last = Call("Run", speed, <<>>)]
                  /\ UNCHANGED <<listenerVars, exited>>

\* func (self Motor) Run(speed int16)
Run(speed) ==
    /\ ~exited
    /\ LET regulationMode == motor.speed_regulation
       IN  CASE regulationMode = "on" ->
                  /\ motor' = [motor EXCEPT
                                 !.speed_sp = speed, !.command = "run-forever",
                                 !.last = Call("Run", speed, << <<"speed_sp", speed>>,
                                                                <<"command", "run-forever">> >>)]
                  /\ UNCHANGED <<listenerVars, exited>>
             [] regulationMode = "off" ->
                  IF speed > 100 \/ speed < -100
                  THEN \* log.Fatal("The speed must be in range [-100, 100]")
                       /\ Exit
                       /\ motor' = [motor EXCEPT !.last = Call("Run", speed, <<>>)]
                  ELSE /\ motor' = [motor EXCEPT
                                      !.duty_cycle_sp = speed, !.command = "run-forever",
                                      !.last = Call("Run", speed, << <<"duty_cycle_sp", speed>>,
                                                                     <<"command", "run-forever">> >>)]
                       /\ UNCHANGED <<listenerVars, exited>>
             [] OTHER ->
                  /\ motor' = [motor EXCEPT !.last = Call("Run", speed, <<>>)]
                  /\ UNCHANGED <<listenerVars, exited>>

\* func (self Motor) Stop()
Stop ==
    /\ ~exited
    /\ motor' = [motor EXCEPT !.command = "stop",
                              !.last = Call("Stop", 0, << <<"command", "stop">> >>)]
    /\ UNCHANGED <<listenerVars, exited>>

\* func (self Motor) EnableRegulationMode()
EnableRegulationMode ==
    /\ ~exited
    /\ motor' = [motor EXCEPT !.speed_regulation = "on",
                              !.last = Call("EnableRegulationMode", 0, << <<"speed_regulation", "on">> >>)]
    /\ UNCHANGED <<listenerVars, exited>>

\* func (self Motor) DisableRegulationMode(port OutPort), with the port of this motor
DisableRegulationMode ==
    /\ ~exited
    /\ motor' = [motor EXCEPT !.speed_regulation = "off",
                              !.last = Call("DisableRegulationMode", 0, << <<"speed_regulation", "off">> >>)]
    /\ UNCHANGED <<listenerVars, exited>>

MotorInit == ListenerInit /\ motor \in {MotorStart(r) : r \in RegulationModes}

MotorNext ==
    \/ \E speed \in Speeds : Run(speed)
    \/ Stop
    \/ EnableRegulationMode
    \/ DisableRegulationMode

MotorSpec == MotorInit /\ [][MotorNext]_vars

\* ------------------------------------------------------ history operators
LogChan(n) == parseChannel(log[n].signal.Name)
LogVal(n) == log[n].signal.Value

SetMax(S) == CHOOSE x \in S : \A y \in S : y <= x

\* Index of the last idle sample of channel c processed before entry n (0 if none).
LastIdle(c, n) ==
    SetMax({0} \cup {j \in 1 .. (n - 1) : LogChan(j) = c /\ LogVal(j) = 0})

\* A sample of value b was processed for channel c before entry n and after
\* the last idle sample of c before n.
SeenInRun(c, b, n) ==
    \E j \in (LastIdle(c, n) + 1) .. (n - 1) : LogChan(j) = c /\ LogVal(j) = b

SeqToSet(q) == {q[j] : j \in 1 .. Len(q)}

RECURSIVE Flatten(_)
Flatten(l) == IF l = <<>> THEN <<>> ELSE l[1].fn \o Flatten(Tail(l))

\* Every callback invoked so far, in order.
Calls == Flatten(log)

\* The signals the engine has processed, in order.
Processed == [n \in 1 .. Len(log) |-> log[n].signal]

\* The values of the signals of q that carry the name of sampler i.
RECURSIVE Proj(_, _)
Proj(i, q) ==
    IF q = <<>> THEN <<>>
    ELSE IF q[1].Name = ValueName(i) THEN <<q[1].Value>> \o Proj(i, Tail(q))
         ELSE Proj(i, Tail(q))

IsPrefix(p, q) == Len(p) <= Len(q) /\ \A j \in 1 .. Len(p) : p[j] = q[j]

EngineGotStop == estop # "no"

\* The step is the engine processing the signal at the head of s.
EngineProcesses == Len(log') = Len(log) + 1

ChannelKeys(c) == {buttonID(c, b) : b \in Buttons}

\* ------------------------------------------------------------------ claims

\* C1: pressed mode: within each maximal run of samples of a channel between
\* two idle samples, the callback for (c, b) is invoked exactly at the first
\* sample of value b of the run and at no later sample of the run; after an
\* idle sample the button fires again.
C1_PressedOncePerRun ==
    reg = "pressed" =>
        \A n \in 1 .. Len(log) :
            log[n].fn = IF LogVal(n) # 0 /\ ~SeenInRun(LogChan(n), LogVal(n), n)
                        THEN << <<LogChan(n), LogVal(n)>> >>
                        ELSE <<>>

\* A repeated non-zero sample with no idle in between was processed: the
\* first fired, the repetition did not.
C1_Witness ==
    /\ reg = "pressed"
    /\ \E n \in 1 .. Len(log) : \E m \in (n + 1) .. Len(log) :
          /\ LogVal(n) # 0
          /\ LogChan(m) = LogChan(n) /\ LogVal(m) = LogVal(n)
          /\ LastIdle(LogChan(n), m) < n
          /\ log[n].fn # <<>>
          /\ log[m].fn = <<>>

\* C2: released mode: a non-zero sample invokes no callback; an idle sample of
\* channel c invokes the callback exactly once for each button b of which a
\* sample was processed on c since the previous idle sample of c, and for no
\* other button.
C2_ReleasedOncePerIdle ==
    reg = "released" =>
        \A n \in 1 .. Len(log) :
            LET due == {<<LogChan(n), b>> : b \in {x \in Buttons : SeenInRun(LogChan(n), x, n)}}
            IN  IF LogVal(n) # 0
                THEN log[n].fn = <<>>
                ELSE /\ SeqToSet(log[n].fn) = due
                     /\ Len(log[n].fn) = Cardinality(due)

\* Two different buttons of one channel were released by one idle sample.
C2_Witness ==
    /\ reg = "released"
    /\ \E n \in 1 .. Len(log) : LogVal(n) = 0 /\ Len(log[n].fn) = 2

\* C3: once a stop value has been sent and received by one of the five
\* goroutines, no callback is invoked any more.
C3_NoCallbackAfterStop == [][Received => Calls' = Calls]_vars

\* C4: after a stop value is sent to a registration, the engine and the four
\* samplers all terminate eventually.
AllTerminated == exited \/ (epc = "done" /\ \A i \in Samplers : spc[i] = "done")

LateSends(i) ==
    IF enqAtStop < 0 THEN 0
    ELSE Cardinality({n \in (enqAtStop + 1) .. Len(enq) : enq[n].Name = ValueName(i)})

\* Reads sampler i is known to have completed after a goroutine received from
\* stop: each of its late sends but the first follows a late read, and so does
\* a value it holds ready to send after a late send.
LateReads(i) ==
    IF LateSends(i) = 0 THEN 0
    ELSE (LateSends(i) - 1) + (IF spc[i] = "send" THEN 1 ELSE 0)

\* C5: after the stop value has been sent and received, a sampler completes at
\* most one more read and at most one more send.
C5_AtMostOneLateRead == \A i \in Samplers : LateReads(i) <= 1 /\ LateSends(i) <= 1

C7_StoppedEngineInert ==
    [][(EngineGotStop /\ ~exited')
         => (epc' = "done" /\ IsPrefix(s, s') /\ pressed' = pressed /\ log' = log)]_vars

\* A sampler added a signal to s after the engine had stopped.
C7_Witness == estop = "empty" /\ ~exited /\ s # <<>>

\* C8 (as claimed): processing an idle sample invokes no callback, in either
\* mode, and only resets the buttons of its channel.
IdleResets(c) ==
    \A k \in DOMAIN pressed \cup DOMAIN pressed' :
        IsPressed(pressed', k) <=> (IsPressed(pressed, k) /\ k \notin ChannelKeys(c))

C8_IdleNeverFires ==
    [][(EngineProcesses /\ Head(s).Value = 0)
         => (log'[Len(log')].fn = <<>> /\ IdleResets(parseChannel(Head(s).Name)))]_vars

\* C8 (amended): an idle sample invokes no callback in pressed mode, invokes
\* the callback once for each button of its channel marked pressed in released
\* mode, and in both modes changes the map only by resetting that channel.
C8_IdleEffect ==
    [][(EngineProcesses /\ Head(s).Value = 0)
         => LET c == parseChannel(Head(s).Name)
                fn == log'[Len(log')].fn
                held == {<<c, b>> : b \in {x \in Buttons : IsPressed(pressed, buttonID(c, x))}}
            IN  /\ reg = "pressed" => fn = <<>>
                /\ reg = "released" => SeqToSet(fn) = held /\ Len(fn) = Cardinality(held)
                /\ IdleResets(c)]_vars

\* In pressed mode an idle sample was processed for a channel with a button
\* marked pressed, and no callback was invoked for it.
C8_Witness ==
    /\ reg = "pressed"
    /\ \E n \in 1 .. Len(log) :
          /\ LogVal(n) = 0
          /\ \E b \in Buttons : SeenInRun(LogChan(n), b, n)
          /\ log[n].fn = <<>>

\* C9 (as claimed): (c, b) is marked pressed iff the most recent sample
\* processed for c had value b.
LastOf(c) == SetMax({0} \cup {j \in 1 .. Len(log) : LogChan(j) = c})

C9_PressedIffLast ==
    ~exited =>
        \A c \in Channels : \A b \in Buttons :
            IsPressed(pressed, buttonID(c, b)) <=> (LastOf(c) > 0 /\ LogVal(LastOf(c)) = b)

\* C9 (amended): (c, b) is marked pressed iff a sample of value b was processed
\* for c since the most recent idle sample of c.
C9_PressedIffSeenSinceIdle ==
    ~exited =>
        \A c \in Channels : \A b \in Buttons :
            IsPressed(pressed, buttonID(c, b)) <=> SeenInRun(c, b, Len(log) + 1)

\* Two buttons of one channel are marked pressed together.
C9_Witness ==
    /\ ~exited
    /\ \E c \in Channels : \E b1 \in Buttons : \E b2 \in Buttons \ {b1} :
          IsPressed(pressed, buttonID(c, b1)) /\ IsPressed(pressed, buttonID(c, b2))

\* C10: the engine processes signals in the order their sends completed, and
\* each sampler's signals in the order it read them, with at most its latest
\* read not yet sent; nothing is reordered, duplicated or lost.
C10_FIFO ==
    ~exited =>
        /\ Processed \o s = enq
        /\ \A i \in Samplers :
              reads[i] = Proj(i, enq) \o (IF spc[i] = "send" THEN <<data[i]>> ELSE <<>>)

\* Signals of two samplers were processed, two of them from one sampler with
\* different values.
C10_Witness ==
    /\ ~exited
    /\ Len(log) = 3
    /\ \E i \in Samplers : \E j \in Samplers \ {i} :
          /\ Len(reads[i]) = 2 /\ reads[i][1] # reads[i][2]
          /\ Len(reads[j]) = 1

\* C11: s never holds more than its capacity; every read is sent exactly once
\* (nothing is dropped or duplicated between a read, s and the engine); a
\* sampler that finds s full stays at its send, keeping its value, until s has
\* room; and while the engine runs every signal sent is eventually processed.
C11_Safe ==
    /\ Len(s) <= QueueCap
    /\ ~exited =>
          /\ Len(log) + Len(s) = Len(enq)
          /\ \A i \in Samplers :
                Len(reads[i]) = Len(Proj(i, enq)) + (IF spc[i] = "send" THEN 1 ELSE 0)
          /\ \A n \in 1 .. Len(log) : log[n].signal = enq[n]

C11_Blocks ==
    \A i \in Samplers :
        (spc[i] = "send" /\ Len(s) = QueueCap /\ ~exited' /\ Len(s') = QueueCap)
            => (spc'[i] = "send" /\ data'[i] = data[i] /\ reads'[i] = reads[i])

\* C11, whole: the bounds and the bookkeeping in every state, the blocked
\* send in every step, and progress for each signal sent.
C11_BoundedNoDrop ==
    /\ []C11_Safe
    /\ [][C11_Blocks]_vars
    /\ \A n \in 1 .. MaxPolls :
          (~exited /\ Len(enq) >= n) ~> (exited \/ epc # "run" \/ Len(log) >= n)

\* A sampler holds a value it cannot send because s is full, while the engine
\* is running.
C11_Witness ==
    /\ ~exited
    /\ epc = "run"
    /\ Len(s) = QueueCap
    /\ \E i \in Samplers : spc[i] = "send"

\* The callbacks an engine of the given kind invokes when it processes the
\* signals of q in order, starting with the map m.
RECURSIVE ReplayFrom(_, _, _)
ReplayFrom(kind, m, q) ==
    IF q = <<>> THEN <<>>
    ELSE LET r == IF kind = "pressed" THEN PressedBody(m, q[1]) ELSE ReleasedBody(m, q[1])
         IN  r.fn \o ReplayFrom(kind, r.pressed, Tail(q))

OtherCalls == Flatten(other.log)
OtherProcessed == [n \in 1 .. Len(other.log) |-> other.log[n].signal]

\* C12: two registrations on one device are independent: the callbacks of each
\* are those its engine yields on the signals of its own samplers alone, its
\* queue holds only what its own samplers sent, no step touches both, and a
\* map changes only in a step in which its own engine processes a signal.
C12_Own ==
    /\ Calls = ReplayFrom(reg, <<>>, Processed)
    /\ OtherCalls = ReplayFrom(other.reg, <<>>, OtherProcessed)
    /\ Processed \o s = enq

C12_Apart ==
    /\ other' # other => UNCHANGED <<s, epc, pressed, log, spc, data, reads, enq>>
    /\ pressed' # pressed => (Len(log') = Len(log) + 1 /\ s' = Tail(s))
    /\ other.pressed' # other.pressed =>
          (Len(other.log') = Len(other.log) + 1 /\ other.s' = Tail(other.s))

\* C12, whole: C12_Own in every state and C12_Apart in every step.
C12_Independent == []C12_Own /\ [][C12_Apart]_vars

\* A pressed and a released registration have both invoked their callback,
\* with a button of the first still marked pressed.
C12_Witness ==
    /\ reg = "pressed" /\ other.reg = "released"
    /\ Calls # <<>> /\ OtherCalls # <<>>
    /\ \E k \in DOMAIN pressed : pressed[k]

\* C13: calls on one sensor are thread-safe: every value a call or a listener
\* reads from a value file is read while the device is in the mode that this
\* call or listener selected.
C13_ReadInOwnMode == \A e \in readIn : e[2] = ModeOf(e[1])

\* C14: the key buttonID gives is unique among the samples a sampler can
\* send: two signals with the same key have the same channel and value.
SignalKey(x) == buttonID(parseChannel(x.Name), x.Value)

C14_ButtonIDUnique ==
    \A x \in SeqToSet(enq) : \A y \in SeqToSet(enq) :
        SignalKey(x) = SignalKey(y) => (x.Name = y.Name /\ x.Value = y.Value)

\* C15: a signal whose value is neither idle nor one of the four button codes
\* ends the process when the engine takes it: no callback is invoked for it and
\* the map is left alone.
C15_UnknownButtonFatal ==
    [][(epc = "run" /\ Len(s) > 0 /\ Head(s).Value \notin 0 .. BlueDown
          /\ (EngineProcesses \/ exited'))
         => (exited' /\ Calls' = Calls /\ ~EngineProcesses)]_vars

\* C20: channels are isolated in one engine: processing a signal of channel c
\* leaves the entries of the buttons of every other channel as they are and
\* invokes the callback with channel c only.
C20_ChannelIsolation ==
    [][EngineProcesses
         => LET c == parseChannel(Head(s).Name)
            IN  /\ \A c2 \in Channels \ {c} : \A b \in Buttons :
                      IsPressed(pressed', buttonID(c2, b)) <=> IsPressed(pressed, buttonID(c2, b))
                /\ \A e \in SeqToSet(log'[Len(log')].fn) : e[1] = c]_vars

\* C16: a fatal error in a goroutine ends the process: a sampler leaves its
\* loop only by receiving from stop or with the process; the step that ends
\* the process sends nothing, invokes nothing and keeps the callbacks already
\* invoked; and after it nothing is read, sent or invoked any more.
C16_FatalEndsAll ==
    [][/\ \A i \in Samplers :
             (spc[i] = "poll" /\ spc'[i] \notin {"poll", "send"})
                 => \/ spc'[i] = "done" /\ stop' = stop - 1
                    \/ exited'
       /\ (~exited /\ exited')
             => /\ log' = log
                /\ s' = <<>> /\ enq' = <<>>
                /\ epc' = "dead" /\ \A i \in Samplers : spc'[i] = "dead"
       /\ exited
             => /\ exited' /\ log' = log /\ s' = s /\ enq' = enq /\ reads' = reads
                /\ epc' = epc /\ spc' = spc]_vars

\* The process was ended by a fatal error after a callback had been invoked.
C16_Witness == exited /\ Calls # <<>>

\* C17: a read that never returns stalls its own sampler only: the hung
\* sampler reads and sends nothing more, while every other sampler can still
\* read (within the poll bound) and send (when s has room) and the engine can
\* still take what is in s; under fair scheduling everything the other
\* samplers read is sent and processed.
Hung == {i \in Samplers : spc[i] = "hung"}

C17_OthersCan ==
    (Hung # {} /\ ~exited) =>
        /\ \A j \in Samplers \ Hung :
              /\ (spc[j] = "poll" /\ Polls < MaxPolls) => ENABLED (\E v \in FileValues(j) : SamplerRead(j, v))
              /\ (spc[j] = "send" /\ Len(s) < QueueCap) => ENABLED SamplerSend(j)
        /\ Len(s) > 0 => ENABLED EngineSignal

C17_HungStays ==
    \A i \in Hung : spc'[i] = "hung" /\ reads'[i] = reads[i] /\ Proj(i, enq') = Proj(i, enq)

\* C17, whole: the others stay able to act, the hung sampler stays put, and
\* what the others hold gets sent and processed.
C17_HangStallsOne ==
    /\ []C17_OthersCan
    /\ [][C17_HungStays]_vars
    /\ (Hung # {}) ~> (s = <<>> /\ \A j \in Samplers : spc[j] # "send")

\* With the read of one sampler hung, a signal of another sampler was
\* processed and a third sampler holds a value to send.
C17_Witness ==
    \E i \in Hung : \E j \in Samplers \ {i} : \E k \in Samplers \ {i, j} :
        /\ Len(log) > 0 /\ log[Len(log)].signal.Name = ValueName(j)
        /\ spc[k] = "send"

\* C18: a registration writes IR-REMOTE to the device before any of its
\* samplers reads, starts one engine and four samplers, one for each of
\* value0..value3, and returns without waiting for a sample, a callback or a
\* value on stop.
C18_Started ==
    /\ \A e \in readIn : e[2] = "IR-REMOTE"
    /\ (reg = "none") => (epc = "idle" /\ \A i \in Samplers : spc[i] = "idle" /\ reads[i] = <<>>)
    /\ Cardinality(Samplers) = 4
    /\ {ValueName(i) : i \in Samplers} = {"value0", "value1", "value2", "value3"}
    /\ \A i \in Samplers : \A j \in Samplers : ValueName(i) = ValueName(j) => i = j
    /\ \A n \in 1 .. Len(enq) : \E i \in Samplers : enq[n].Name = ValueName(i) /\ reads[i] # <<>>

C18_Returns ==
    (reg = "none" /\ reg' # "none")
        => /\ devMode' = "IR-REMOTE"
           /\ epc' = "run" /\ \A i \in Samplers : spc'[i] = "poll"
           /\ s' = <<>> /\ log' = log /\ reads' = reads /\ readIn' = readIn
           /\ stop' = stop /\ sent' = sent

\* C18, whole: C18_Started in every state and C18_Returns in every step.
C18_RegistrationOrder == []C18_Started /\ [][C18_Returns]_vars

\* After a registration three samplers have each read their file, all in
\* remote mode.
C18_Witness ==
    /\ reg # "none" /\ ~exited
    /\ Cardinality({i \in Samplers : reads[i] # <<>>}) = 3
    /\ readIn = {<<"pollRemote", "IR-REMOTE">>}

\* C19: Run with speed_regulation "off" and a speed outside [-100, 100] ends
\* the process and writes neither duty_cycle_sp nor command; with a speed
\* inside it writes duty_cycle_sp = speed, then command = "run-forever"; with
\* "on" it writes speed_sp = speed, then command = "run-forever", whatever the
\* speed; with any other content it writes nothing.
C19_Run ==
    [][(motor'.last.op = "Run" /\ motor' # motor)
         => LET speed == motor'.last.speed
                writes == motor'.last.writes
                mode == motor.speed_regulation
                files(m) == <<m.speed_regulation, m.speed_sp, m.duty_cycle_sp, m.command>>
            IN  /\ (mode = "off" /\ (speed > 100 \/ speed < -100))
                      => (exited' /\ writes = <<>> /\ files(motor') = files(motor))
                /\ (mode = "off" /\ speed >= -100 /\ speed <= 100)
                      => /\ ~exited'
                         /\ writes = << <<"duty_cycle_sp", speed>>, <<"command", "run-forever">> >>
                         /\ files(motor') = <<mode, motor.speed_sp, speed, "run-forever">>
                /\ mode = "on"
                      => /\ ~exited'
                         /\ writes = << <<"speed_sp", speed>>, <<"command", "run-forever">> >>
                         /\ files(motor') = <<mode, speed, motor.duty_cycle_sp, "run-forever">>
                /\ mode \notin {"on", "off"}
                      => (~exited' /\ writes = <<>> /\ files(motor') = files(motor))]_vars

\* Run(-101) with regulation off ended the process and left the files as an
\* earlier call had written them.
C19_Witness ==
    /\ exited
    /\ motor.last = Call("Run", -101, <<>>)
    /\ motor.speed_regulation = "off"
    /\ motor.duty_cycle_sp = 100 /\ motor.command = "run-forever"

====
